---- MODULE Spec2Model ----
(***************************************************************************)
(* Chainlit chatbot with LLM guardrails: the chat-start handler, the       *)
(* message handler (src/main.py) and the nine guardrail functions          *)
(* (src/input_guardrail.py, src/output_guardrail.py).                      *)
(*                                                                         *)
(* Text is a sequence of atoms (string pieces); concatenation is \o.       *)
(* One turn of the message handler is a sequence of steps, one per await   *)
(* at which the handler, the streamed agent run or a guardrail task can    *)
(* make progress.                                                          *)
(*                                                                         *)
(* main() hands the guardrail lists of the agent to Runner.run_streamed.   *)
(* What the handler observes of that run, as modelled here:                *)
(*  - the input guardrail functions are started with the run and proceed   *)
(*    concurrently with the main agent, whose text deltas the handler      *)
(*    streams to the user as they arrive;                                  *)
(*  - the output guardrail functions are started on the final output, once *)
(*    the agent has produced all of it; the first tripped result cancels   *)
(*    the output guardrail tasks still in flight;                          *)
(*  - a tripped result, or an exception raised inside a guardrail function *)
(*    or the agent, is raised to the handler by stream_events();           *)
(*  - the stream ends normally only after every guardrail task returned.   *)
(* The oracle (the guardrail agent's model call) is nondeterministic: any  *)
(* reply of the function's output type, or an exception.                   *)
(***************************************************************************)
EXTENDS Naturals, Sequences, FiniteSets

\* ------------------------------------------------------------------ bounds
MaxTurns == 1
MaxDeltas == 2
MaxSessionTurns == 2

\* ------------------------------------------------------------- input sets
None == "None"
Messages == {"m1", "m2"}
\* The text deltas of a response, in order of arrival: distinct pieces, so
\* that a loss, a repetition or a reordering of deltas shows.
ResponseDeltas == <<"d1", "d2", "d3", "d4">>
Reasonings == {"r1", "r2"}
Topics == {"politics", "religion"}
OracleErrors == {"oracle_error"}
ModelErrors == {"model_error"}
Profiles == {None, "Gemini-2.0-flash", "Meta-Llama-32b", "EXAONE-3.5-32b",
             "DeepSeek-Chat-V3", "Unknown-Profile"}
\* The profiles of the sessions whose turns are explored step by step.
RunProfiles == {None, "Meta-Llama-32b"}

\* ------------------------------------------------- src/input_guardrail.py
InputToxicityCheckOutput == [is_toxic : BOOLEAN, reasoning : Reasonings]

MaliciousIntentOutput ==
    [has_malicious_intent : BOOLEAN, is_developer_context : BOOLEAN,
     reasoning : Reasonings]

toxicity_guardrail(output) == output.is_toxic

\* Mutant: the developer-context exemption forgotten.
malicious_intent_guardrail_NoExemption(output) == output.has_malicious_intent

malicious_intent_guardrail(output) ==
    output.has_malicious_intent /\ ~output.is_developer_context

\* ------------------------------------------------ src/output_guardrail.py
ToxicityCheckOutput ==
    [is_toxic : BOOLEAN, is_developer_context : BOOLEAN, reasoning : Reasonings]

PIICheckOutput ==
    [contains_pii : BOOLEAN, is_developer_context : BOOLEAN,
     reasoning : Reasonings]

HallucinationCheckOutput ==
    [is_factually_inaccurate : BOOLEAN, is_developer_context : BOOLEAN,
     reasoning : Reasonings]

VerbosityCheckOutput ==
    [is_too_verbose : BOOLEAN, is_developer_context : BOOLEAN,
     reasoning : Reasonings]

HarmfulAdviceCheckOutput ==
    [is_harmful : BOOLEAN, is_developer_context : BOOLEAN,
     reasoning : Reasonings]

SensitiveTopicOutput ==
    [is_sensitive : BOOLEAN, is_developer_context : BOOLEAN,
     topic_category : Topics, reasoning : Reasonings]

SelfReferenceCheckOutput ==
    [contains_self_reference : BOOLEAN, is_developer_context : BOOLEAN,
     reasoning : Reasonings]

toxicity_output_guardrail(data) == data.is_toxic /\ ~data.is_developer_context

pii_output_guardrail(data) == data.contains_pii /\ ~data.is_developer_context

hallucination_output_guardrail(data) ==
    data.is_factually_inaccurate /\ ~data.is_developer_context

verbosity_output_guardrail(data) ==
    data.is_too_verbose /\ ~data.is_developer_context

harmful_advice_output_guardrail(data) ==
    data.is_harmful /\ ~data.is_developer_context

\* Mutant: the decision reads topic_category.
sensitive_topic_output_guardrail_ByTopic(data) ==
    data.is_sensitive /\ ~data.is_developer_context
       /\ data.topic_category = "politics"

sensitive_topic_output_guardrail(data) ==
    data.is_sensitive /\ ~data.is_developer_context

self_reference_output_guardrail(data) ==
    data.contains_self_reference /\ ~data.is_developer_context

\* The guardrail functions the two modules define.
AllInputGuardrails == {"toxicity_guardrail", "malicious_intent_guardrail"}

AllOutputGuardrails ==
    {"toxicity_output_guardrail", "pii_output_guardrail",
     "hallucination_output_guardrail", "verbosity_output_guardrail",
     "harmful_advice_output_guardrail", "sensitive_topic_output_guardrail",
     "self_reference_output_guardrail"}

\* output_type of the guardrail agent each function runs.
OutputType(g) ==
    CASE g = "toxicity_guardrail" -> InputToxicityCheckOutput
      [] g = "malicious_intent_guardrail" -> MaliciousIntentOutput
      [] g = "toxicity_output_guardrail" -> ToxicityCheckOutput
      [] g = "pii_output_guardrail" -> PIICheckOutput
      [] g = "hallucination_output_guardrail" -> HallucinationCheckOutput
      [] g = "verbosity_output_guardrail" -> VerbosityCheckOutput
      [] g = "harmful_advice_output_guardrail" -> HarmfulAdviceCheckOutput
      [] g = "sensitive_topic_output_guardrail" -> SensitiveTopicOutput
      [] g = "self_reference_output_guardrail" -> SelfReferenceCheckOutput

\* tripwire_triggered of the GuardrailFunctionOutput function g returns.
TripwireTriggered(g, output) ==
    CASE g = "toxicity_guardrail" -> toxicity_guardrail(output)
      [] g = "malicious_intent_guardrail" -> malicious_intent_guardrail(output)
      [] g = "toxicity_output_guardrail" -> toxicity_output_guardrail(output)
      [] g = "pii_output_guardrail" -> pii_output_guardrail(output)
      [] g = "hallucination_output_guardrail" ->
            hallucination_output_guardrail(output)
      [] g = "verbosity_output_guardrail" -> verbosity_output_guardrail(output)
      [] g = "harmful_advice_output_guardrail" ->
            harmful_advice_output_guardrail(output)
      [] g = "sensitive_topic_output_guardrail" ->
            sensitive_topic_output_guardrail(output)
      [] g = "self_reference_output_guardrail" ->
            self_reference_output_guardrail(output)

\* ------------------------------------------------------------ src/main.py
\* Agent(name="Chatbot", input_guardrails=[...], output_guardrails=[...])
input_guardrails == <<"toxicity_guardrail", "malicious_intent_guardrail">>

output_guardrails ==
    <<"toxicity_output_guardrail", "pii_output_guardrail",
      "sensitive_topic_output_guardrail", "hallucination_output_guardrail",
      "self_reference_output_guardrail", "harmful_advice_output_guardrail">>

Range(s) == {s[i] : i \in 1..Len(s)}

\* Mutant: the EXAONE branch binds the other Together model.
ProviderOfOneTogetherModel(selected) ==
    CASE selected = "Gemini-2.0-flash" ->
            [client |-> "gemini", model |-> "gemini_api_model"]
      [] selected \in {"Meta-Llama-32b", "EXAONE-3.5-32b"} ->
            [client |-> "together", model |-> "together_model"]
      [] selected = "DeepSeek-Chat-V3" ->
            [client |-> "openrouter", model |-> "openrouter_model"]
      [] OTHER -> [client |-> "gemini", model |-> "gemini_api_model"]

\* if/elif chain of start(): the AsyncOpenAI client and the model name.
ProviderOf(selected) ==
    CASE selected = "Gemini-2.0-flash" ->
            [client |-> "gemini", model |-> "gemini_api_model"]
      [] selected = "Meta-Llama-32b" ->
            [client |-> "together", model |-> "together_model"]
      [] selected = "EXAONE-3.5-32b" ->
            [client |-> "together", model |-> "together_model1"]
      [] selected = "DeepSeek-Chat-V3" ->
            [client |-> "openrouter", model |-> "openrouter_model"]
      [] OTHER -> [client |-> "gemini", model |-> "gemini_api_model"]

\* selected_model = profile if profile else "Gemini-2.0-flash"
SelectedModel(profile) == IF profile # None THEN profile ELSE "Gemini-2.0-flash"

NoExc == [kind |-> "None"]
NoResult == [guardrail |-> "None"]

\* Mutant: the tripwire exception's message quotes the judgment's reasoning.
ExcStrWithReasoning(e) ==
    IF e.kind \in {"InputGuardrailTripwireTriggered",
                   "OutputGuardrailTripwireTriggered"}
    THEN <<"Guardrail tripped: ", e.guardrail_result.output_info.reasoning>>
    ELSE <<e.text>>

\* str(e) of the exception the streamed run raises: the tripwire exceptions
\* carry the guardrail result but their message names only the guardrail
\* class; any other exception's message is its own text.
ExcStr(e) ==
    CASE e.kind = "InputGuardrailTripwireTriggered" ->
            <<"Guardrail ", "InputGuardrail", " triggered tripwire">>
      [] e.kind = "OutputGuardrailTripwireTriggered" ->
            <<"Guardrail ", "OutputGuardrail", " triggered tripwire">>
      [] OTHER -> <<e.text>>

\* cl.Message(content=f"❌ An error occurred: {str(e)}")
ErrorContent(e) == <<"An error occurred: ">> \o ExcStr(e)

\* Mutant: the token replaces the content instead of extending it.
StreamTokenReplace(content, delta) == <<delta>>

\* Mutant: the token is put in front of the content.
StreamTokenPrepend(content, delta) == <<delta>> \o content

\* response_message.stream_token(delta): the content grows by the delta.
StreamToken(content, delta) == Append(content, delta)

VARIABLES
    pc,               \* "nochat" | "idle" | "running": position of the session
    turns,            \* messages handled so far
    chat_profile,     \* user_session["chat_profile"], None when missing
    selected_model,   \* user_session["selected_model"]
    external_client,  \* the client the agents of the session are bound to
    model_name,       \* the model name the agents of the session are bound to
    session_history,  \* user_session["chat_history"]
    chat_history,     \* main()'s local list
    aliased,          \* chat_history is the very list stored in the session
    run_input,        \* the input handed to Runner.run_streamed
    in_status,        \* per input guardrail function: state of its task
    out_status,       \* per output guardrail function: state of its task
    last_result,      \* the GuardrailFunctionOutput returned last
    exc,              \* the exception stored for stream_events() to raise
    model_state,      \* "idle" | "generating" | "final" | "failed"
    model_deltas,     \* the text deltas the main agent has produced
    thinking_msg,     \* "none" | "sent" | "removed"
    thinking_removes, \* calls of thinking_msg.remove() in this turn
    response_message, \* [content, sent]
    first_response,
    error_msg,        \* content of the error message sent, <<>> if none
    outcome           \* how the last turn ended: "none" | "delivered" | "error"

vars == <<pc, turns, chat_profile, selected_model, external_client, model_name,
          session_history, chat_history, aliased, run_input, in_status,
          out_status, last_result, exc, model_state, model_deltas,
          thinking_msg, thinking_removes, response_message, first_response,
          error_msg, outcome>>

sessionVars == <<chat_profile, selected_model, external_client, model_name>>

Init ==
    /\ pc = "nochat"
    /\ turns = 0
    /\ chat_profile = None
    /\ selected_model = None
    /\ external_client = None
    /\ model_name = None
    /\ session_history = <<>>
    /\ chat_history = <<>>
    /\ aliased = FALSE
    /\ run_input = <<>>
    /\ in_status = [g \in AllInputGuardrails |-> "notrun"]
    /\ out_status = [g \in AllOutputGuardrails |-> "notrun"]
    /\ last_result = NoResult
    /\ exc = NoExc
    /\ model_state = "idle"
    /\ model_deltas = <<>>
    /\ thinking_msg = "none"
    /\ thinking_removes = 0
    /\ response_message = [content |-> <<>>, sent |-> FALSE]
    /\ first_response = TRUE
    /\ error_msg = <<>>
    /\ outcome = "none"

\* @cl.on_chat_start start()
Start(profile) ==
    /\ pc = "nochat"
    /\ chat_profile' = profile
    /\ selected_model' = SelectedModel(profile)
    /\ external_client' = ProviderOf(SelectedModel(profile)).client
    /\ model_name' = ProviderOf(SelectedModel(profile)).model
    /\ session_history' = <<>>
    /\ pc' = "idle"
    /\ UNCHANGED <<turns, chat_history, aliased, run_input, in_status,
                   out_status, last_result, exc, model_state, model_deltas,
                   thinking_msg, thinking_removes, response_message,
                   first_response, error_msg, outcome>>

Wired(gs, g) == g \in Range(gs)

\* Mutant: the first guardrail to pass decides for the whole list.
SomePassed(status, gs) == \E g \in Range(gs) : status[g] = "passed"

\* Every guardrail of the list has returned without tripping.
AllPassed(status, gs) == \A g \in Range(gs) : status[g] = "passed"

\* t.cancel() for every task of the guardrail run still in flight.
CancelRunning(status) ==
    [g \in DOMAIN status |-> IF status[g] = "running" THEN "cancelled"
                             ELSE status[g]]

\* The run is over: what a task still in flight returns is never read.
AbandonRunning(status) ==
    [g \in DOMAIN status |-> IF status[g] = "running" THEN "abandoned"
                             ELSE status[g]]

\* @cl.on_message main(), up to the start of the streamed run: the thinking
\* message, the user entry appended to the history list, Runner.run_streamed
\* started on that list, the empty response message.
OnMessage(content) ==
    /\ pc = "idle"
    /\ turns' = turns + 1
    /\ pc' = "running"
    /\ thinking_msg' = "sent"
    /\ thinking_removes' = 0
    \* chat_history = cl.user_session.get("chat_history") or []
    /\ aliased' = (session_history # <<>>)
    /\ chat_history' =
          Append(session_history, [role |-> "user", content |-> <<content>>])
    /\ session_history' =
          IF session_history # <<>> THEN chat_history' ELSE session_history
    /\ run_input' = chat_history'
    /\ in_status' = [g \in AllInputGuardrails |->
                        IF Wired(input_guardrails, g) THEN "running"
                        ELSE "notrun"]
    /\ out_status' = [g \in AllOutputGuardrails |-> "notrun"]
    /\ exc' = NoExc
    /\ model_state' = "generating"
    /\ model_deltas' = <<>>
    /\ response_message' = [content |-> <<>>, sent |-> FALSE]
    /\ first_response' = TRUE
    /\ error_msg' = <<>>
    /\ outcome' = "none"
    /\ UNCHANGED <<sessionVars, last_result>>

\* An input guardrail function returns: Runner.run of its guardrail agent
\* gave final_output `output`; the runner queues the result, and a tripped
\* one becomes the exception stream_events() raises.
InputGuardrailReturns(g, output) ==
    /\ pc = "running"
    /\ in_status[g] = "running"
    /\ exc.kind \in {"None", "InputGuardrailTripwireTriggered"}
    /\ LET result == [guardrail |-> g, output_info |-> output,
                      tripwire_triggered |-> TripwireTriggered(g, output)]
       IN /\ in_status' = [in_status EXCEPT ![g] =
                IF result.tripwire_triggered THEN "tripped" ELSE "passed"]
          /\ exc' = IF result.tripwire_triggered
                    THEN [kind |-> "InputGuardrailTripwireTriggered",
                          guardrail_result |-> result]
                    ELSE exc
    /\ UNCHANGED <<pc, turns, sessionVars, session_history, chat_history,
                   aliased, run_input, out_status, last_result, model_state,
                   model_deltas, thinking_msg, thinking_removes,
                   response_message, first_response, error_msg, outcome>>

\* The oracle call of an input guardrail function raises: nothing in the
\* function catches it, the guardrail run ends with that exception and its
\* other tasks are cancelled.
InputGuardrailRaises(g, err) ==
    /\ pc = "running"
    /\ in_status[g] = "running"
    /\ exc.kind \in {"None", "InputGuardrailTripwireTriggered"}
    /\ in_status' = [CancelRunning(in_status) EXCEPT ![g] = "failed"]
    /\ exc' = [kind |-> "Exception", text |-> err, origin |-> g]
    /\ UNCHANGED <<pc, turns, sessionVars, session_history, chat_history,
                   aliased, run_input, out_status, last_result, model_state,
                   model_deltas, thinking_msg, thinking_removes,
                   response_message, first_response, error_msg, outcome>>

\* Mutant: the loop also appends each delta to the history list, which is
\* the input of the run in progress.
ModelDeltaIntoHistory(delta) ==
    /\ pc = "running"
    /\ model_state = "generating"
    /\ exc = NoExc
    /\ Len(model_deltas) < MaxDeltas
    /\ model_deltas' = Append(model_deltas, delta)
    /\ thinking_msg' = IF first_response THEN "removed" ELSE thinking_msg
    /\ thinking_removes' =
          IF first_response THEN thinking_removes + 1 ELSE thinking_removes
    /\ response_message' =
          [content |-> Append(response_message.content, delta),
           sent |-> TRUE]
    /\ first_response' = FALSE
    /\ chat_history' =
          Append(chat_history, [role |-> "assistant", content |-> <<delta>>])
    /\ UNCHANGED <<pc, turns, sessionVars, session_history, aliased,
                   run_input, in_status, out_status, last_result, exc,
                   model_state, error_msg, outcome>>

\* The main agent produces a text delta and the handler's loop shows it:
\* on the first one the thinking message is removed and the response message
\* sent, then the delta is streamed into the response message.
ModelDelta(delta) ==
    /\ pc = "running"
    /\ model_state = "generating"
    /\ exc = NoExc
    /\ Len(model_deltas) < MaxDeltas
    /\ model_deltas' = Append(model_deltas, delta)
    /\ thinking_msg' = IF first_response THEN "removed" ELSE thinking_msg
    /\ thinking_removes' =
          IF first_response THEN thinking_removes + 1 ELSE thinking_removes
    /\ response_message' =
          [content |-> StreamToken(response_message.content, delta),
           sent |-> TRUE]
    /\ first_response' = FALSE
    /\ UNCHANGED <<pc, turns, sessionVars, session_history, chat_history,
                   aliased, run_input, in_status, out_status, last_result, exc,
                   model_state, error_msg, outcome>>

\* The main agent's run fails (the model call raises).
ModelRaises(err) ==
    /\ pc = "running"
    /\ model_state = "generating"
    /\ exc.kind \in {"None", "InputGuardrailTripwireTriggered"}
    /\ model_state' = "failed"
    /\ exc' = [kind |-> "Exception", text |-> err, origin |-> "model"]
    /\ UNCHANGED <<pc, turns, sessionVars, session_history, chat_history,
                   aliased, run_input, in_status, out_status, last_result,
                   model_deltas, thinking_msg, thinking_removes,
                   response_message, first_response, error_msg, outcome>>

\* The main agent reaches its final output: the output guardrails of the
\* agent are started on it.
ModelFinal ==
    /\ pc = "running"
    /\ model_state = "generating"
    /\ exc = NoExc
    /\ model_state' = "final"
    /\ out_status' = [g \in AllOutputGuardrails |->
                        IF Wired(output_guardrails, g) THEN "running"
                        ELSE "notrun"]
    /\ UNCHANGED <<pc, turns, sessionVars, session_history, chat_history,
                   aliased, run_input, in_status, last_result, exc,
                   model_deltas, thinking_msg, thinking_removes,
                   response_message, first_response, error_msg, outcome>>

\* An output guardrail function returns. The first tripped result cancels
\* the other output guardrail tasks and becomes the exception of the run.
OutputGuardrailReturns(g, output) ==
    /\ pc = "running"
    /\ out_status[g] = "running"
    /\ exc = NoExc
    /\ LET result == [guardrail |-> g, output_info |-> output,
                      tripwire_triggered |-> TripwireTriggered(g, output)]
       IN /\ out_status' =
                IF result.tripwire_triggered
                THEN [CancelRunning(out_status) EXCEPT ![g] = "tripped"]
                ELSE [out_status EXCEPT ![g] = "passed"]
          /\ exc' = IF result.tripwire_triggered
                    THEN [kind |-> "OutputGuardrailTripwireTriggered",
                          guardrail_result |-> result]
                    ELSE exc
    /\ UNCHANGED <<pc, turns, sessionVars, session_history, chat_history,
                   aliased, run_input, in_status, last_result, model_state,
                   model_deltas, thinking_msg, thinking_removes,
                   response_message, first_response, error_msg, outcome>>

\* The oracle call of an output guardrail function raises.
OutputGuardrailRaises(g, err) ==
    /\ pc = "running"
    /\ out_status[g] = "running"
    /\ exc = NoExc
    /\ out_status' = [AbandonRunning(out_status) EXCEPT ![g] = "failed"]
    /\ exc' = [kind |-> "Exception", text |-> err, origin |-> g]
    /\ UNCHANGED <<pc, turns, sessionVars, session_history, chat_history,
                   aliased, run_input, in_status, last_result, model_state,
                   model_deltas, thinking_msg, thinking_removes,
                   response_message, first_response, error_msg, outcome>>

\* The event stream ends without an exception, every guardrail task of the
\* run having returned: main() appends the assistant
\* entry, stores the history in the session and updates the response message.
StreamEnds ==
    /\ pc = "running"
    /\ model_state = "final"
    /\ exc = NoExc
    /\ AllPassed(in_status, input_guardrails)
    /\ AllPassed(out_status, output_guardrails)
    /\ chat_history' = Append(chat_history,
          [role |-> "assistant", content |-> response_message.content])
    /\ session_history' = chat_history'
    /\ pc' = "idle"
    /\ outcome' = "delivered"
    /\ UNCHANGED <<turns, sessionVars, aliased, run_input, in_status,
                   out_status, last_result, exc, model_state, model_deltas,
                   thinking_msg, thinking_removes, response_message,
                   first_response, error_msg>>

\* stream_events() raises the stored exception: main()'s except branch
\* removes the thinking message and sends the error message.
ExceptBranch ==
    /\ pc = "running"
    /\ exc # NoExc
    /\ thinking_msg' = "removed"
    /\ thinking_removes' = thinking_removes + 1
    /\ error_msg' = ErrorContent(exc)
    /\ in_status' = AbandonRunning(in_status)
    /\ out_status' = AbandonRunning(out_status)
    /\ pc' = "idle"
    /\ outcome' = "error"
    /\ UNCHANGED <<turns, sessionVars, session_history, chat_history, aliased,
                   run_input, last_result, exc, model_state, model_deltas,
                   response_message, first_response>>

Next ==
    \/ \E profile \in RunProfiles : Start(profile)
    \/ \E content \in Messages : turns < MaxTurns /\ OnMessage(content)
    \/ \E g \in AllInputGuardrails :
          \E output \in OutputType(g) : InputGuardrailReturns(g, output)
    \/ \E g \in AllInputGuardrails :
          \E err \in OracleErrors : InputGuardrailRaises(g, err)
    \/ ModelDelta(ResponseDeltas[Len(model_deltas) + 1])
    \/ \E err \in ModelErrors : ModelRaises(err)
    \/ ModelFinal
    \/ \E g \in AllOutputGuardrails :
          \E output \in OutputType(g) : OutputGuardrailReturns(g, output)
    \/ \E g \in AllOutputGuardrails :
          \E err \in OracleErrors : OutputGuardrailRaises(g, err)
    \/ StreamEnds
    \/ ExceptBranch

Spec == Init /\ [][Next]_vars

\* ------------------------------------------------- sessions of many turns
\* The guardrail of the list whose task, started first, is still in flight.
IsFirstRunning(status, gs, g) ==
    \E i \in 1..Len(gs) :
       /\ gs[i] = g
       /\ status[g] = "running"
       /\ \A j \in 1..(i - 1) : status[gs[j]] # "running"

\* The steps of a run whose guardrail tasks return in the order in which
\* the run started them.
RunInOrder ==
    \/ \E g \in AllInputGuardrails :
          \E output \in OutputType(g) :
             /\ IsFirstRunning(in_status, input_guardrails, g)
             /\ InputGuardrailReturns(g, output)
    \/ \E g \in AllInputGuardrails :
          \E err \in OracleErrors :
             /\ IsFirstRunning(in_status, input_guardrails, g)
             /\ InputGuardrailRaises(g, err)
    \/ ModelDelta(ResponseDeltas[Len(model_deltas) + 1])
    \/ \E err \in ModelErrors : ModelRaises(err)
    \/ ModelFinal
    \/ \E g \in AllOutputGuardrails :
          \E output \in OutputType(g) :
             /\ IsFirstRunning(out_status, output_guardrails, g)
             /\ OutputGuardrailReturns(g, output)
    \/ \E g \in AllOutputGuardrails :
          \E err \in OracleErrors :
             /\ IsFirstRunning(out_status, output_guardrails, g)
             /\ OutputGuardrailRaises(g, err)
    \/ StreamEnds
    \/ ExceptBranch

\* Sessions of several turns.
NextSession ==
    \/ \E profile \in RunProfiles : Start(profile)
    \/ \E content \in Messages :
          turns < MaxSessionTurns /\ OnMessage(content)
    \/ RunInOrder

SpecSession == Init /\ [][NextSession]_vars

\* Sessions of every chat profile.
NextStart ==
    \/ \E profile \in Profiles : Start(profile)
    \/ \E content \in Messages : turns < MaxTurns /\ OnMessage(content)
    \/ RunInOrder

SpecStart == Init /\ [][NextStart]_vars

\* ---------------------------------------------- guardrail functions alone
\* Every guardrail function applied to every reply its guardrail agent can
\* give: Init draws the function and the reply, the one action applies it.
GuardrailInit ==
    /\ pc = "guardrail"
    /\ turns = 0
    /\ chat_profile = None
    /\ selected_model = None
    /\ external_client = None
    /\ model_name = None
    /\ session_history = <<>>
    /\ chat_history = <<>>
    /\ aliased = FALSE
    /\ run_input = <<>>
    /\ in_status = [g \in AllInputGuardrails |-> "notrun"]
    /\ out_status = [g \in AllOutputGuardrails |-> "notrun"]
    /\ \E g \in AllInputGuardrails \cup AllOutputGuardrails :
          \E output \in OutputType(g) :
             last_result = [guardrail |-> g, output_info |-> output,
                            tripwire_triggered |-> FALSE, returned |-> FALSE]
    /\ exc = NoExc
    /\ model_state = "idle"
    /\ model_deltas = <<>>
    /\ thinking_msg = "none"
    /\ thinking_removes = 0
    /\ response_message = [content |-> <<>>, sent |-> FALSE]
    /\ first_response = TRUE
    /\ error_msg = <<>>
    /\ outcome = "none"

\* return GuardrailFunctionOutput(output_info=..., tripwire_triggered=...)
GuardrailFunctionReturns ==
    /\ pc = "guardrail"
    /\ ~last_result.returned
    /\ last_result' =
          [last_result EXCEPT
              !.tripwire_triggered =
                  TripwireTriggered(last_result.guardrail,
                                    last_result.output_info),
              !.returned = TRUE]
    /\ UNCHANGED <<pc, turns, sessionVars, session_history, chat_history,
                   aliased, run_input, in_status, out_status, exc, model_state,
                   model_deltas, thinking_msg, thinking_removes,
                   response_message, first_response, error_msg, outcome>>

GuardrailNext == GuardrailFunctionReturns

SpecGuardrail == GuardrailInit /\ [][GuardrailNext]_vars

\* ================================================================= claims
TurnEnded == pc = "idle" /\ outcome # "none"

Verdict == {"passed", "tripped"}

TripKinds ==
    {"InputGuardrailTripwireTriggered", "OutputGuardrailTripwireTriggered"}

WiredIn == Range(input_guardrails)
WiredOut == Range(output_guardrails)

FailedChecks ==
    {g \in AllInputGuardrails : in_status[g] = "failed"}
       \cup {g \in AllOutputGuardrails : out_status[g] = "failed"}

TrippedChecks ==
    {g \in AllInputGuardrails : in_status[g] = "tripped"}
       \cup {g \in AllOutputGuardrails : out_status[g] = "tripped"}

\* C1 (as claimed): when an output-stage guardrail run has ended without any
\* oracle failure, every wired output check has been evaluated and has a
\* verdict (no trip kept another check from being evaluated), and the run
\* tripped iff at least one of its checks tripped.
C1_EveryCheckYieldsVerdict ==
    (TurnEnded /\ model_state = "final"
       /\ exc.kind \in {"None", "OutputGuardrailTripwireTriggered"})
    => /\ \A g \in WiredOut : out_status[g] \in Verdict
       /\ (exc.kind = "OutputGuardrailTripwireTriggered")
             <=> (\E g \in WiredOut : out_status[g] = "tripped")

\* C2: for every reply of the oracle, the tripwire a guardrail function
\* returns is its specified decision: input Toxicity trips iff is_toxic;
\* every other check trips iff its primary flag is true and
\* is_developer_context is false.
C2_PrimaryFlag(g, o) ==
    CASE g = "toxicity_guardrail" -> o.is_toxic
      [] g = "malicious_intent_guardrail" -> o.has_malicious_intent
      [] g = "toxicity_output_guardrail" -> o.is_toxic
      [] g = "pii_output_guardrail" -> o.contains_pii
      [] g = "hallucination_output_guardrail" -> o.is_factually_inaccurate
      [] g = "verbosity_output_guardrail" -> o.is_too_verbose
      [] g = "harmful_advice_output_guardrail" -> o.is_harmful
      [] g = "sensitive_topic_output_guardrail" -> o.is_sensitive
      [] g = "self_reference_output_guardrail" -> o.contains_self_reference

C2_TripwireIsDecisionFunction ==
    (last_result.guardrail # "None" /\ last_result.returned)
    => LET g == last_result.guardrail
           o == last_result.output_info
       IN last_result.tripwire_triggered =
             IF g = "toxicity_guardrail" THEN o.is_toxic
             ELSE C2_PrimaryFlag(g, o) /\ ~o.is_developer_context

\* C2 witness: MaliciousIntent has returned on a reply with
\* has_malicious_intent and is_developer_context both true, not tripped.
C2_Witness ==
    /\ last_result.guardrail = "malicious_intent_guardrail"
    /\ last_result.returned
    /\ last_result.output_info.has_malicious_intent
    /\ last_result.output_info.is_developer_context
    /\ ~last_result.tripwire_triggered

\* C3 (as claimed): a turn whose response is delivered has had all seven
\* output checks (and both input checks) evaluated and passed.
C3_AllNineChecksRun ==
    (TurnEnded /\ outcome = "delivered")
    => /\ \A g \in AllInputGuardrails : in_status[g] = "passed"
       /\ \A g \in AllOutputGuardrails : out_status[g] = "passed"

\* C4 (as claimed): fail-open. A turn in which exactly one check's oracle
\* call failed, no check tripped and the main agent did not fail ends as a
\* normal pass: the response is delivered and no error is shown.
C4_FailOpen ==
    (TurnEnded /\ Cardinality(FailedChecks) = 1 /\ TrippedChecks = {}
       /\ model_state # "failed")
    => /\ outcome = "delivered"
       /\ error_msg = <<>>

\* C5 (as claimed): no response text of the main agent exists or is shown
\* before the input guardrail run of the turn has passed; in a turn whose
\* input run trips, no agent token is shown.
C5_AgentWaitsForInputGuardrails ==
    /\ (model_deltas # <<>> \/ response_message.content # <<>>)
          => \A g \in WiredIn : in_status[g] = "passed"
    /\ (\E g \in WiredIn : in_status[g] = "tripped")
          => (response_message.content = <<>> /\ ~response_message.sent)

\* C6 (as claimed): a turn ended by an output-guardrail trip has shown the
\* user no part of the response text.
C6_OutputTripSuppressesResponse ==
    (TurnEnded /\ exc.kind = "OutputGuardrailTripwireTriggered")
    => /\ ~response_message.sent
       /\ response_message.content = <<>>

\* C7: in a turn ended by a guardrail trip, the error text shown is the
\* fixed notice of the stage, the same whatever the judgment, and no text
\* shown to the user in any ended turn contains a judgment's reasoning.
C7_Notice(kind) ==
    <<"An error occurred: ", "Guardrail ",
      IF kind = "InputGuardrailTripwireTriggered" THEN "InputGuardrail"
      ELSE "OutputGuardrail",
      " triggered tripwire">>

C7_NoticeIndependentOfJudgment ==
    TurnEnded
    => /\ exc.kind \in TripKinds => error_msg = C7_Notice(exc.kind)
       /\ \A r \in Reasonings :
             /\ r \notin Range(error_msg)
             /\ r \notin Range(response_message.content)

\* C7 witness: a turn ended by the trip of MaliciousIntent whose judgment
\* carries the reasoning "r2".
C7_Witness ==
    /\ TurnEnded
    /\ exc.kind = "InputGuardrailTripwireTriggered"
    /\ exc.guardrail_result.guardrail = "malicious_intent_guardrail"
    /\ exc.guardrail_result.output_info.reasoning = "r2"
    /\ error_msg # <<>>

\* C8 (as claimed): in a turn ended by the failure of a guardrail's oracle
\* call, the text shown to the user does not contain the raw error text.
C8_NoRawErrorText ==
    (TurnEnded /\ exc.kind = "Exception" /\ exc.origin # "model")
    => exc.text \notin Range(error_msg)

C10_DeliveredUnmodified ==
    (TurnEnded /\ model_state = "final"
       /\ (\A g \in WiredIn : in_status[g] = "passed")
       /\ (\A g \in WiredOut : out_status[g] = "passed"))
    => /\ outcome = "delivered"
       /\ error_msg = <<>>
       /\ response_message.content = model_deltas
       /\ session_history[Len(session_history)] =
             [role |-> "assistant", content |-> model_deltas]

\* C10 witness: a delivered turn whose response has two deltas.
C10_Witness ==
    /\ TurnEnded
    /\ outcome = "delivered"
    /\ Len(model_deltas) = 2
    /\ response_message.sent

\* C11 (as claimed): the payload of the input guardrail run of a turn is
\* that turn's user message alone.
C11_PayloadIsRawMessage ==
    pc = "running"
    => /\ Len(run_input) = 1
       /\ run_input[1].role = "user"

\* C12: the tripwire a guardrail function returns is decided by the reply's
\* primary flag and is_developer_context alone: every reply of the same
\* function that agrees on these two fields (on is_toxic for input Toxicity,
\* whose reply has no is_developer_context), whatever its reasoning and
\* topic_category, gets the same tripwire.
C12_SameFlags(g, o1, o2) ==
    /\ C2_PrimaryFlag(g, o1) = C2_PrimaryFlag(g, o2)
    /\ g # "toxicity_guardrail"
          => o1.is_developer_context = o2.is_developer_context

C12_DecisionReadsOwnFlagsOnly ==
    (last_result.guardrail # "None" /\ last_result.returned)
    => \A o2 \in OutputType(last_result.guardrail) :
          C12_SameFlags(last_result.guardrail, last_result.output_info, o2)
          => TripwireTriggered(last_result.guardrail, o2)
                = last_result.tripwire_triggered

\* C12 witness: SensitiveTopic has returned tripped on a reply whose
\* topic_category is "religion" and whose reasoning is "r2".
C12_Witness ==
    /\ last_result.guardrail = "sensitive_topic_output_guardrail"
    /\ last_result.returned
    /\ last_result.tripwire_triggered
    /\ last_result.output_info.topic_category = "religion"
    /\ last_result.output_info.reasoning = "r2"

\* C13: while a run is in progress the payloads under evaluation do not
\* change: the handler's history list is the input the run was started on,
\* no step that leaves the run in progress changes either, and once the
\* final output exists no step changes the agent's response text.
C13_PayloadFrozenDuringRun ==
    [][(pc = "running" /\ pc' = "running")
         => /\ chat_history = run_input
            /\ run_input' = run_input
            /\ chat_history' = chat_history
            /\ model_state = "final" => model_deltas' = model_deltas]_vars

\* C13 witness: a run with input and output guardrail tasks both in flight,
\* one output check returned, on a response of two deltas.
C13_Witness ==
    /\ pc = "running"
    /\ model_state = "final"
    /\ Len(model_deltas) = 2
    /\ in_status["malicious_intent_guardrail"] = "running"
    /\ out_status["toxicity_output_guardrail"] = "passed"
    /\ out_status["pii_output_guardrail"] = "running"

\* C14 (as claimed): a turn that ended in the except branch leaves the
\* history stored in the session as it was before the turn, that is the
\* run's input without the turn's user entry.
C14_FailedTurnLeavesHistory ==
    (TurnEnded /\ outcome = "error")
    => session_history = SubSeq(run_input, 1, Len(run_input) - 1)

\* C15: after a turn that ended without exception the stored history is
\* the history before the turn, then the user entry of the turn (together
\* the input the run was started on), then one assistant entry holding the
\* agent's deltas in order of arrival.
C15_HistoryExtendedByTwo ==
    (TurnEnded /\ outcome = "delivered")
    => /\ run_input[Len(run_input)].role = "user"
       /\ session_history =
             run_input \o <<[role |-> "assistant", content |-> model_deltas]>>

\* C15 witness: a second delivered turn, on a response of two deltas.
C15_Witness ==
    /\ TurnEnded
    /\ outcome = "delivered"
    /\ Len(session_history) = 4
    /\ Len(model_deltas) = 2

\* C16 (as claimed): when a turn has ended, the thinking message has been
\* removed exactly once.
C16_ThinkingRemovedOnce ==
    TurnEnded
    => /\ thinking_msg = "removed"
       /\ thinking_removes = 1

\* C17: once the chat has started, the session is bound to the provider
\* and model of its chat profile (Gemini for "Gemini-2.0-flash", for a
\* missing profile and for any other name), and before the first message
\* the stored history is empty.
C17_ProfileBinding ==
    pc # "nochat"
    => /\ chat_profile = "Meta-Llama-32b"
             => external_client = "together" /\ model_name = "together_model"
       /\ chat_profile = "EXAONE-3.5-32b"
             => external_client = "together" /\ model_name = "together_model1"
       /\ chat_profile = "DeepSeek-Chat-V3"
             => /\ external_client = "openrouter"
                /\ model_name = "openrouter_model"
       /\ chat_profile \notin
             {"Meta-Llama-32b", "EXAONE-3.5-32b", "DeepSeek-Chat-V3"}
             => /\ external_client = "gemini"
                /\ model_name = "gemini_api_model"
       /\ chat_profile = None => selected_model = "Gemini-2.0-flash"
       /\ (pc = "idle" /\ turns = 0) => session_history = <<>>

\* C17 witness: a session started with an unrecognised profile name.
C17_Witness ==
    /\ pc = "idle"
    /\ turns = 0
    /\ chat_profile = "Unknown-Profile"
    /\ external_client = "gemini"

====
